---- MODULE Spec2Model ----
(***************************************************************************)
(* Wi-Fi provisioning firmware (firmware/v1/boot_test.py, v1/net.py,       *)
(* v1/utils.py, v1/parse.py) as a state machine.                           *)
(*                                                                         *)
(* Python strings are sequences of one-character strings, so that `in`,    *)
(* find, slicing, replace, split and percent-decoding are computed the way *)
(* the code computes them.  Python dicts are functions whose DOMAIN is the *)
(* set of keys present.                                                    *)
(***************************************************************************)
EXTENDS Integers, Sequences, FiniteSets, TLC

(***************************************************************************)
(* Python string primitives                                                *)
(***************************************************************************)

\* The printable ASCII characters in code order: 32 (space) to 95 (_), then
\* 97 (a) to 126 (~).  Code 96 is left out (the character cannot be written
\* in a TLA+ string), so no input of the model uses it.
Printable ==
    <<" ", "!", "\"", "#", "$", "%", "&", "'", "(", ")", "*", "+", ",", "-", ".", "/",
      "0", "1", "2", "3", "4", "5", "6", "7", "8", "9", ":", ";", "<", "=", ">", "?",
      "@", "A", "B", "C", "D", "E", "F", "G", "H", "I", "J", "K", "L", "M", "N", "O",
      "P", "Q", "R", "S", "T", "U", "V", "W", "X", "Y", "Z", "[", "\\", "]", "^", "_",
      "a", "b", "c", "d", "e", "f", "g", "h", "i", "j", "k", "l", "m", "n", "o",
      "p", "q", "r", "s", "t", "u", "v", "w", "x", "y", "z", "{", "|", "}", "~">>

\* ord(c) of a character: its byte value under UTF-8 for the ASCII range.
Ord(c) ==
    CASE c = "\t" -> 9
      [] c = "\n" -> 10
      [] c = "\r" -> 13
      [] \E i \in 1..Len(Printable) : Printable[i] = c ->
            LET k == CHOOSE i \in 1..Len(Printable) : Printable[i] = c
            IN  IF k <= 64 THEN 31 + k ELSE 32 + k

\* One byte decoded as UTF-8 with errors="replace": ASCII bytes are themselves,
\* a lone byte >= 0x80 is not a valid sequence and becomes U+FFFD.  Control
\* bytes other than tab, LF, CR are outside the alphabet the model feeds in.
Chr(b) ==
    CASE b = 9 -> "\t"
      [] b = 10 -> "\n"
      [] b = 13 -> "\r"
      [] b \in 32..95 -> Printable[b - 31]
      [] b \in 97..126 -> Printable[b - 32]
      [] b \in 128..255 -> "U+FFFD"

\* str.encode("utf-8") and bytes.decode("utf-8", "replace"), bytewise.
Encode(s) == [i \in 1..Len(s) |-> Ord(s[i])]
Decode(bs) == [i \in 1..Len(bs) |-> Chr(bs[i])]

\* s.find(sub): the lowest 0-based index where sub occurs in s, or -1.
Find(s, sub) ==
    LET hits == {i \in 0..(Len(s) - Len(sub)) : SubSeq(s, i + 1, i + Len(sub)) = sub}
    IN  IF hits = {} THEN -1 ELSE CHOOSE i \in hits : \A j \in hits : i <= j

\* sub in s
Contains(s, sub) == Find(s, sub) >= 0

\* s[i:j] with Python's rules: a negative index counts from the end, indices
\* are clamped to [0, len(s)], and an empty range gives the empty string.
PySlice(s, i, j) ==
    LET n == Len(s)
        norm(k) == IF k < 0 THEN (IF k + n < 0 THEN 0 ELSE k + n)
                   ELSE IF k > n THEN n ELSE k
    IN  SubSeq(s, norm(i) + 1, norm(j))

\* s.replace(a, b) for single characters a, b.
ReplaceChar(s, a, b) == [i \in 1..Len(s) |-> IF s[i] = a THEN b ELSE s[i]]

\* s.split(sep) for a one-element separator: the pieces between occurrences.
RECURSIVE Split(_, _)
Split(s, sep) ==
    LET hits == {i \in 1..Len(s) : s[i] = sep}
    IN  IF hits = {} THEN <<s>>
        ELSE LET k == CHOOSE i \in hits : \A j \in hits : i <= j
             IN  <<SubSeq(s, 1, k - 1)>> \o Split(SubSeq(s, k + 1, Len(s)), sep)

\* b"".join(parts)
RECURSIVE Join(_)
Join(parts) == IF parts = <<>> THEN <<>> ELSE Head(parts) \o Join(Tail(parts))

(***************************************************************************)
(* firmware/v1/parse.py: percent/plus decoding                             *)
(***************************************************************************)

_hexdig ==
    <<"0", "1", "2", "3", "4", "5", "6", "7", "8", "9",
      "A", "B", "C", "D", "E", "F", "a", "b", "c", "d", "e", "f">>

\* int(d, 16) of one hex digit given as a byte.
HexVal(b) ==
    CASE b \in 48..57 -> b - 48
      [] b \in 65..70 -> b - 55
      [] b \in 97..102 -> b - 87

IsHexByte(b) == \E i \in 1..Len(_hexdig) : Ord(_hexdig[i]) = b

\* key in _hextobyte: exactly two hex digits.
InHexToByte(key) == Len(key) = 2 /\ IsHexByte(key[1]) /\ IsHexByte(key[2])

\* _hextobyte[key] == bytes([int(a + b, 16)])
_hextobyte(key) == <<16 * HexVal(key[1]) + HexVal(key[2])>>

\* for item in bits[1:]: the decoded byte and the rest, or "%" and the item
\* unchanged when item[:2] is no key of _hextobyte (KeyError).
UnquoteItem(item) ==
    IF InHexToByte(PySlice(item, 0, 2))
    THEN _hextobyte(PySlice(item, 0, 2)) \o PySlice(item, 2, Len(item))
    ELSE <<Ord("%")>> \o item

unquote_to_bytes(string) ==
    IF string = <<>> THEN <<>>
    ELSE LET bits == Split(Encode(string), Ord("%"))
         IN  IF Len(bits) = 1 THEN Encode(string)
             ELSE Join(<<bits[1]>> \o [i \in 1..(Len(bits) - 1) |-> UnquoteItem(bits[i + 1])])

unquote(string) ==
    IF ~Contains(string, <<"%">>) THEN string
    ELSE Decode(unquote_to_bytes(string))

unquote_plus(string) == unquote(ReplaceChar(string, "+", " "))

(***************************************************************************)
(* Python dicts and the configuration record                               *)
(***************************************************************************)

\* Keys of the configuration record (config.json).
WIFI == <<"w", "i", "f", "i">>
HOTSPOT == <<"h", "o", "t", "s", "p", "o", "t">>
SSID == <<"s", "s", "i", "d">>
PASSWORD == <<"p", "a", "s", "s", "w", "o", "r", "d">>

\* {}
EmptyDict == [k \in {} |-> <<>>]

\* key in d
HasKey(d, k) == k \in DOMAIN d

\* d[k] = v
DictSet(d, k, v) == [j \in DOMAIN d \cup {k} |-> IF j = k THEN v ELSE d[j]]

\* The order in which a dict's keys are written out (ujson writes them in the
\* dict's iteration order, which no claim depends on): the record's own keys
\* in the order net.py reads them, wifi before hotspot and ssid before
\* password; any other key follows.
KeyOrder == <<WIFI, HOTSPOT, SSID, PASSWORD>>

RECURSIVE KeysInOrder(_, _)
KeysInOrder(keys, i) ==
    IF i > Len(KeyOrder)
    THEN IF keys \cap {KeyOrder[j] : j \in 1..Len(KeyOrder)} = keys THEN <<>>
         ELSE LET k == CHOOSE k \in keys : k \notin {KeyOrder[j] : j \in 1..Len(KeyOrder)}
              IN  <<k>> \o KeysInOrder(keys \ {k}, i)
    ELSE IF KeyOrder[i] \in keys THEN <<KeyOrder[i]>> \o KeysInOrder(keys, i + 1)
         ELSE KeysInOrder(keys, i + 1)

(***************************************************************************)
(* ujson.dump / ujson.load, as used by firmware/v1/utils.py.               *)
(* The record is a dict of sections, each a dict of strings (spec §6);    *)
(* the file is the sequence of characters of its JSON text.               *)
(***************************************************************************)

\* Mutant: the characters of a string are written out as they are.
JsonEscape_verbatim(c) == <<c>>

\* One character of a JSON string, escaped as ujson writes it.
JsonEscape(c) ==
    CASE c = "\"" -> <<"\\", "\"">>
      [] c = "\\" -> <<"\\", "\\">>
      [] c = "\n" -> <<"\\", "n">>
      [] c = "\r" -> <<"\\", "r">>
      [] c = "\t" -> <<"\\", "t">>
      [] OTHER -> <<c>>

DumpString(s) ==
    <<"\"">> \o Join([i \in 1..Len(s) |-> JsonEscape(s[i])]) \o <<"\"">>

\* A value at nesting depth n: a string at depth 0, else a dict whose values
\* are at depth n - 1.  DumpMembers writes "k1": v1, "k2": v2 for the keys ks.
RECURSIVE DumpValue(_, _)
RECURSIVE DumpMembers(_, _, _)
DumpMembers(d, ks, n) ==
    IF ks = <<>> THEN <<>>
    ELSE DumpString(Head(ks)) \o <<":", " ">> \o DumpValue(d[Head(ks)], n)
         \o (IF Len(ks) > 1 THEN <<",", " ">> ELSE <<>>)
         \o DumpMembers(d, Tail(ks), n)

DumpValue(v, n) ==
    IF n = 0 THEN DumpString(v)
    ELSE <<"{">> \o DumpMembers(v, KeysInOrder(DOMAIN v, 1), n - 1) \o <<"}">>

\* ujson.dump(config, f): the text written to the file.  The record is a
\* dict (depth 2) of sections (depth 1) of strings.
Dump(config) == DumpValue(config, 2)

IsSpace(c) == c \in {" ", "\t", "\n", "\r"}

\* The index of the first character at or after i that is not white space
\* (Len(s) + 1 when there is none).
RECURSIVE SkipWs(_, _)
SkipWs(s, i) == IF i <= Len(s) /\ IsSpace(s[i]) THEN SkipWs(s, i + 1) ELSE i

\* A parse result: ok, the value, and the index after what was read.
Parsed(v, i) == [ok |-> TRUE, val |-> v, next |-> i]
ParseFail == [ok |-> FALSE, val |-> <<>>, next |-> 0]

\* The characters of a JSON string from index i (after the opening quote) up
\* to the closing quote, with the escapes ujson writes undone.
RECURSIVE ScanString(_, _, _)
ScanString(s, i, acc) ==
    IF i > Len(s) THEN ParseFail
    ELSE IF s[i] = "\"" THEN Parsed(acc, i + 1)
    ELSE IF s[i] = "\\"
         THEN IF i + 1 > Len(s) THEN ParseFail
              ELSE CASE s[i + 1] = "\"" -> ScanString(s, i + 2, Append(acc, "\""))
                     [] s[i + 1] = "\\" -> ScanString(s, i + 2, Append(acc, "\\"))
                     [] s[i + 1] = "/" -> ScanString(s, i + 2, Append(acc, "/"))
                     [] s[i + 1] = "n" -> ScanString(s, i + 2, Append(acc, "\n"))
                     [] s[i + 1] = "r" -> ScanString(s, i + 2, Append(acc, "\r"))
                     [] s[i + 1] = "t" -> ScanString(s, i + 2, Append(acc, "\t"))
                     [] OTHER -> ParseFail
    ELSE ScanString(s, i + 1, Append(acc, s[i]))

ParseString(s, i) ==
    LET j == SkipWs(s, i)
    IN  IF j <= Len(s) /\ s[j] = "\"" THEN ScanString(s, j + 1, <<>>) ELSE ParseFail

\* A value at nesting depth n from index i.  ParseMembers reads the members
\* of an object from index i (after "{" or ","), adding them to acc.
RECURSIVE ParseValue(_, _, _)
RECURSIVE ParseMembers(_, _, _, _)
ParseMembers(s, i, acc, n) ==
    LET k == ParseString(s, i)
    IN  IF ~k.ok THEN ParseFail
        ELSE LET c == SkipWs(s, k.next)
             IN  IF c > Len(s) \/ s[c] /= ":" THEN ParseFail
                 ELSE LET v == ParseValue(s, c + 1, n)
                      IN  IF ~v.ok THEN ParseFail
                          ELSE LET e == SkipWs(s, v.next)
                                   d == DictSet(acc, k.val, v.val)
                               IN  IF e > Len(s) THEN ParseFail
                                   ELSE IF s[e] = "}" THEN Parsed(d, e + 1)
                                   ELSE IF s[e] = "," THEN ParseMembers(s, e + 1, d, n)
                                   ELSE ParseFail

ParseValue(s, i, n) ==
    IF n = 0 THEN ParseString(s, i)
    ELSE LET j == SkipWs(s, i)
         IN  IF j > Len(s) \/ s[j] /= "{" THEN ParseFail
             ELSE LET m == SkipWs(s, j + 1)
                  IN  IF m <= Len(s) /\ s[m] = "}" THEN Parsed(EmptyDict, m + 1)
                      ELSE ParseMembers(s, j + 1, EmptyDict, n - 1)

\* ujson.load(f): the record of a complete JSON text, or a failure
\* (ValueError) if the text is not one.
Load(text) ==
    LET r == ParseValue(text, 1, 2)
    IN  IF r.ok /\ SkipWs(text, r.next) > Len(text) THEN r ELSE ParseFail

(***************************************************************************)
(* HTTP requests as the client sends them, and str(conn.recv(1024))        *)
(***************************************************************************)

CRLF == <<"\r", "\n">>

\* "?n1=v1&n2=v2" for a sequence of <<name, raw value>> fields ("" for none).
RECURSIVE QueryString(_)
QueryString(fields) ==
    IF fields = <<>> THEN <<>>
    ELSE Head(fields)[1] \o <<"=">> \o Head(fields)[2]
         \o (IF Len(fields) > 1 THEN <<"&">> ELSE <<>>) \o QueryString(Tail(fields))

\* The bytes on the wire of a request with the given method, path, query
\* fields, version and header lines.
RequestBytes(r) ==
    r.method \o <<" ">> \o r.path
      \o (IF r.query = <<>> THEN <<>> ELSE <<"?">> \o QueryString(r.query))
      \o <<" ">> \o r.version \o CRLF
      \o Join([i \in 1..Len(r.headers) |-> r.headers[i] \o CRLF]) \o CRLF

\* conn.recv(1024): at most the first 1024 bytes.
RecvSize == 1024
Recv(bytes) == PySlice(bytes, 0, RecvSize)

\* str(b): the printed form of a bytes object, b'...' with escapes.  (The
\* requests of the model hold no quote character, so the quote is always '.)
ReprByte(c) ==
    CASE c = "\\" -> <<"\\", "\\">>
      [] c = "'" -> <<"\\", "'">>
      [] c = "\n" -> <<"\\", "n">>
      [] c = "\r" -> <<"\\", "r">>
      [] c = "\t" -> <<"\\", "t">>
      [] OTHER -> <<c>>

Str(bytes) ==
    <<"b", "'">> \o Join([i \in 1..Len(bytes) |-> ReprByte(bytes[i])]) \o <<"'">>

(***************************************************************************)
(* firmware/v1/net.py: the tests and extractions of host_config_server     *)
(***************************************************************************)

\* "GET /config" in request
IsConfigRequest(request) ==
    Contains(request, <<"G", "E", "T", " ", "/", "c", "o", "n", "f", "i", "g">>)

\* "ssid" in request and "password" in request
HasCredentialFields(request) ==
    /\ Contains(request, <<"s", "s", "i", "d">>)
    /\ Contains(request, <<"p", "a", "s", "s", "w", "o", "r", "d">>)

\* request[request.find("ssid=") + 5 : request.find("&password=")]
ExtractSsid(request) ==
    PySlice(request,
            Find(request, <<"s", "s", "i", "d", "=">>) + 5,
            Find(request, <<"&", "p", "a", "s", "s", "w", "o", "r", "d", "=">>))

\* request[request.find("password=") + 9 : request.find(" HTTP/1.1")]
ExtractPassword(request) ==
    PySlice(request,
            Find(request, <<"p", "a", "s", "s", "w", "o", "r", "d", "=">>) + 9,
            Find(request, <<" ", "H", "T", "T", "P", "/", "1", ".", "1">>))

\* The body sent on any request that is not a configuration request.
InvalidRequestMessage ==
    <<"I", "n", "v", "a", "l", "i", "d", " ", "r", "e", "q", "u", "e", "s", "t", ",", " ",
      "p", "l", "e", "a", "s", "e", " ", "v", "i", "s", "i", "t", " ", "/", "c", "o", "n",
      "f", "i", "g", " ", "t", "o", " ", "c", "o", "n", "f", "i", "g", "u", "r", "e", " ",
      "w", "i", "f", "i", " ", "c", "r", "e", "d", "e", "n", "t", "i", "a", "l", "s">>

\* Mutant: the test of the ssid against "" is left out.
HasWifiCredentials_keys_only(config) ==
    /\ HasKey(config, WIFI)
    /\ HasKey(config[WIFI], SSID)
    /\ HasKey(config[WIFI], PASSWORD)

\* Mutant: the password is tested against "" as well.
HasWifiCredentials_needs_password(config) ==
    /\ HasKey(config, WIFI)
    /\ HasKey(config[WIFI], SSID)
    /\ HasKey(config[WIFI], PASSWORD)
    /\ config[WIFI][SSID] /= <<>>
    /\ config[WIFI][PASSWORD] /= <<>>

\* The condition of connect_to_wifi: both keys present and the ssid not "".
HasWifiCredentials(config) ==
    /\ HasKey(config, WIFI)
    /\ HasKey(config[WIFI], SSID)
    /\ HasKey(config[WIFI], PASSWORD)
    /\ config[WIFI][SSID] /= <<>>

\* config["wifi"][key] = value
SetWifi(config, key, value) == DictSet(config, WIFI, DictSet(config[WIFI], key, value))

\* The timeout of the wait for the station connection, in milliseconds.
ConnectTimeoutMs == 10000

(***************************************************************************)
(* firmware/v1/utils.py                                                    *)
(***************************************************************************)

\* The file system entry of a file that does not exist / that holds text.
NoFile == [present |-> FALSE, text |-> <<>>]
FileOf(text) == [present |-> TRUE, text |-> text]

\* Mutant: a file that cannot be parsed is read as the empty record.
load_config_defaults(f) ==
    IF f.present /\ Load(f.text).ok THEN Load(f.text) ELSE Parsed(EmptyDict, 0)

\* load_config(): {} when config.json is not listed, else ujson.load of it.
load_config(f) == IF f.present THEN Load(f.text) ELSE Parsed(EmptyDict, 0)

\* save_config(config): config.json opened with "w" and the dump written.
save_config(config) == FileOf(Dump(config))

\* config.json when power is lost during save_config: the file as it was
\* (the power went before open), or what had reached the file of the dump
\* after open(config_file, "w") emptied it, from nothing to all of it.
TornFiles(old, new) ==
    {old} \cup {FileOf(SubSeq(new.text, 1, k)) : k \in 0..Len(new.text)}

(***************************************************************************)
(* Inputs: the files a device can hold at power-on, the requests a client  *)
(* can send                                                                *)
(***************************************************************************)

Section(ssid, password) == [k \in {SSID, PASSWORD} |-> IF k = SSID THEN ssid ELSE password]

HotspotSection == Section(<<"l", "i", "n", "k">>, <<"l", "p", "w">>)

Record(wifi) == [k \in {WIFI, HOTSPOT} |-> IF k = WIFI THEN wifi ELSE HotspotSection]

\* config.json at first power-on: absent, an empty record, a record without
\* a wifi section, records whose wifi section holds no, partial or full
\* credentials, and a file cut short.
InitialFiles ==
    { NoFile,
      FileOf(Dump(EmptyDict)),
      FileOf(Dump([k \in {HOTSPOT} |-> HotspotSection])),
      FileOf(Dump(Record(Section(<<>>, <<>>)))),
      FileOf(Dump(Record(Section(<<"h", "o", "m", "e">>, <<"k", "e", "y">>)))),
      FileOf(Dump(Record(Section(<<"o", "p", "e", "n">>, <<>>)))),
      FileOf(Dump(Record([k \in {SSID} |-> <<"h", "o", "m", "e">>]))),
      FileOf(PySlice(Dump(Record(Section(<<"h", "o", "m", "e">>, <<"k", "e", "y">>))), 0, 20)) }

\* The content of config.html, the static form page.
FormPage == <<"<", "f", "o", "r", "m", ">">>

GET == <<"G", "E", "T">>
POST == <<"P", "O", "S", "T">>
HTTP11 == <<"H", "T", "T", "P", "/", "1", ".", "1">>
HTTP10 == <<"H", "T", "T", "P", "/", "1", ".", "0">>
ConfigPath == <<"/", "c", "o", "n", "f", "i", "g">>

Request(method, path, query, version, headers) ==
    [method |-> method, path |-> path, query |-> query, version |-> version,
     headers |-> headers]

NoRequest == Request(<<>>, <<>>, <<>>, <<>>, <<>>)

RefererHeader ==
    <<"R", "e", "f", "e", "r", "e", "r", ":", " ", "/", "c", "o", "n", "f", "i", "g",
      "?", "s", "s", "i", "d", "=", "a", "&", "p", "a", "s", "s", "w", "o", "r", "d", "=", "b">>

\* GET /config?ssid=foo%20bar&password=baz%2Bqux HTTP/1.1
ExampleSubmission ==
    Request(GET, ConfigPath,
            << <<SSID, <<"f", "o", "o", "%", "2", "0", "b", "a", "r">> >>,
               <<PASSWORD, <<"b", "a", "z", "%", "2", "B", "q", "u", "x">> >> >>,
            HTTP11, <<>>)

\* The requests a client sends.
Requests ==
    { Request(GET, ConfigPath, <<>>, HTTP11, <<>>),
      ExampleSubmission,
      Request(GET, ConfigPath,
              << <<PASSWORD, <<"b">> >>, <<SSID, <<"a">> >> >>, HTTP11, <<>>),
      Request(GET, ConfigPath,
              << <<SSID, <<"o", "p", "e", "n">> >>, <<PASSWORD, <<>> >> >>, HTTP11, <<>>),
      Request(GET, ConfigPath,
              << <<SSID, <<"a", "+", "b">> >>, <<PASSWORD, <<"%", "z", "z">> >> >>, HTTP11, <<>>),
      Request(GET, ConfigPath,
              << <<SSID, <<"a">> >>, <<PASSWORD, <<"b">> >> >>, HTTP10, <<>>),
      Request(GET, ConfigPath, << <<SSID, <<"a">> >> >>, HTTP11, <<>>),
      Request(GET, ConfigPath, <<>>, HTTP11, <<RefererHeader>>),
      Request(GET, <<"/", "c", "o", "n", "f", "i", "g", "2">>, <<>>, HTTP11, <<>>),
      Request(GET, <<"/">>, <<>>, HTTP11, <<>>),
      Request(GET, <<"/", "x">>,
              << <<SSID, <<"a">> >>, <<PASSWORD, <<"b">> >> >>, HTTP11, <<>>),
      Request(POST, ConfigPath, <<>>, HTTP11, <<>>) }

\* The number of power-ons and restarts a behaviour of the model may hold.
MaxBoots == 3

\* The time that passes between two polls of station.isconnected(), in ms.
PollIntervalMs == 4000

(***************************************************************************)
(* State                                                                   *)
(***************************************************************************)

VARIABLES
    config_json,    \* the file config.json: [present, text]
    config_html,    \* TRUE iff config.html (the form page) is on the file system
    apAtBoot,       \* TRUE iff the access point interface is active at power-on
    boots,          \* power-ons and restarts so far
    bootCause,      \* what started this boot cycle: "power", "submit", "bind"
    pc,             \* where the boot cycle's single thread of control is
    config,         \* the record in memory (boot_test.py: config)
    now,            \* time.ticks_ms() since the boot
    start,          \* connect_to_wifi: start
    station,        \* network.WLAN(STA_IF): active, the connect() calls, polled
    connectRaised,  \* station.connect raised in this boot cycle
    wifiResult,     \* what connect_to_wifi returned: "pending", "true", "false"
    calls,          \* calls in this boot cycle of connect_to_wifi, host_config_server, save_config
    ap,             \* network.WLAN(AP_IF): active, created here, essid, password
    associated,     \* a client has associated with the access point
    listener,       \* the server socket: "none", "bound"
    connOpen,       \* an accepted connection is open
    request,        \* host_config_server: request
    httpRequest,    \* the request the client of the current connection sent
    handled,        \* the current connection's request has been handled
    response,       \* what was sent on the current connection: [sent, body]
    entry,          \* config_json and config when connect_to_wifi was entered or the
                    \* current connection accepted, whichever came last
    submitted,      \* the credentials host_config_server last wrote: [valid, ssid, password]
    connClosed,     \* conn.close() has been called on the connection accepted last
    interrupted,    \* the save_config that the power loss which began this boot
                    \* cycle cut short: [cut, old, new]
    crash           \* the exception that ended the boot script, or "none"

vars ==
    <<config_json, config_html, apAtBoot, boots, bootCause, pc, config, now, start,
      station, connectRaised, wifiResult, calls, ap, associated, listener, connOpen,
      request, httpRequest, handled, response, entry, submitted, connClosed,
      interrupted, crash>>

\* What the file system holds and what survives a restart only as a record
\* of the past.
persistent == <<config_json, config_html, apAtBoot>>
history == <<httpRequest, handled, response, submitted, entry, connClosed, interrupted>>

NoResponse == [sent |-> FALSE, body |-> <<>>]
Sent(body) == [sent |-> TRUE, body |-> body]
NoCalls == [connect_to_wifi |-> 0, host_config_server |-> 0, save_config |-> 0]
StationOff == [active |-> FALSE, connects |-> <<>>, polled |-> FALSE]
Snapshot(f, c) == [file |-> f, config |-> c]
NoInterrupt == [cut |-> FALSE, old |-> NoFile, new |-> NoFile]
Interrupt(old, new) == [cut |-> TRUE, old |-> old, new |-> new]

\* The access point interface at the start of a boot cycle.
ApAtPowerOn(active) ==
    [active |-> active, created |-> FALSE, essid |-> <<>>, password |-> <<>>]

Init ==
    /\ config_json \in InitialFiles
    /\ config_html \in BOOLEAN
    /\ apAtBoot \in BOOLEAN
    /\ boots = 1
    /\ bootCause = "power"
    /\ pc = "boot"
    /\ config = EmptyDict
    /\ now = 0
    /\ start = 0
    /\ station = StationOff
    /\ connectRaised = FALSE
    /\ wifiResult = "pending"
    /\ calls = NoCalls
    /\ ap = ApAtPowerOn(apAtBoot)
    /\ associated = FALSE
    /\ listener = "none"
    /\ connOpen = FALSE
    /\ request = <<>>
    /\ entry = Snapshot(config_json, EmptyDict)
    /\ crash = "none"
    /\ httpRequest = NoRequest
    /\ handled = FALSE
    /\ response = NoResponse
    /\ submitted = [valid |-> FALSE, ssid |-> <<>>, password |-> <<>>]
    /\ connClosed = FALSE
    /\ interrupted = NoInterrupt

\* machine.reset(), or power lost and restored: a new boot cycle with the
\* file system as f; everything else is as at power-on.
Restart(cause, f) ==
    /\ boots < MaxBoots
    /\ boots' = boots + 1
    /\ config_json' = f
    /\ UNCHANGED <<config_html, apAtBoot>>
    /\ bootCause' = cause
    /\ pc' = "boot"
    /\ config' = EmptyDict
    /\ now' = 0
    /\ start' = 0
    /\ station' = StationOff
    /\ connectRaised' = FALSE
    /\ wifiResult' = "pending"
    /\ calls' = NoCalls
    /\ ap' = ApAtPowerOn(apAtBoot)
    /\ associated' = FALSE
    /\ listener' = "none"
    /\ connOpen' = FALSE
    /\ request' = <<>>
    /\ crash' = "none"

\* An exception nothing catches ends the boot script: the provisioning is
\* over for this boot cycle and nothing restarts the device.
Crash(exception) ==
    /\ pc' = "crashed"
    /\ crash' = exception

(***************************************************************************)
(* firmware/v1/boot_test.py and connect_to_wifi                            *)
(***************************************************************************)

\* config = load_config(), then connect_to_wifi(config) is entered.
LoadConfig ==
    /\ pc = "boot"
    /\ LET r == load_config(config_json)
       IN  IF r.ok
           THEN /\ config' = r.val
                /\ pc' = "connect_to_wifi"
                /\ calls' = [calls EXCEPT !.connect_to_wifi = @ + 1]
                /\ entry' = Snapshot(config_json, r.val)
                /\ crash' = crash
           ELSE /\ Crash("ValueError")
                /\ entry' = Snapshot(config_json, config)
                /\ UNCHANGED <<config, calls>>
    /\ httpRequest' = NoRequest
    /\ handled' = FALSE
    /\ response' = NoResponse
    /\ interrupted' = NoInterrupt
    /\ UNCHANGED <<persistent, boots, bootCause, now, start, station, connectRaised,
                   wifiResult, ap, associated, listener, connOpen, request, submitted,
                   connClosed>>

\* The else branch: no credentials, return False; boot_test.py then calls
\* host_config_server(config).
NoCredentials ==
    /\ pc = "connect_to_wifi"
    /\ ~HasWifiCredentials(config)
    /\ wifiResult' = "false"
    /\ pc' = "host_config_server"
    /\ UNCHANGED <<persistent, history, boots, bootCause, config, now, start, station,
                   connectRaised, calls, ap, associated, listener, connOpen, request, crash>>

\* station.active(True); station.connect(ssid, password) returns.
ConnectStation ==
    [station EXCEPT !.active = TRUE,
                    !.connects = Append(@, <<config[WIFI][SSID], config[WIFI][PASSWORD]>>)]

ConnectReturns ==
    /\ pc = "connect_to_wifi"
    /\ HasWifiCredentials(config)
    /\ station' = ConnectStation
    /\ start' = now
    /\ pc' = "poll"
    /\ UNCHANGED <<persistent, history, boots, bootCause, config, now, connectRaised,
                   wifiResult, calls, ap, associated, listener, connOpen, request, crash>>

\* Mutant: only the ssid is set to "".
ClearCredentials_ssid_only(c) == DictSet(c, WIFI, DictSet(c[WIFI], SSID, <<>>))

\* The record after the except branch: both credentials set to "".
ClearCredentials(c) == SetWifi(SetWifi(c, SSID, <<>>), PASSWORD, <<>>)

\* station.connect raises: the credentials are cleared and saved, and the
\* wait for the connection starts all the same.
ConnectRaises ==
    /\ pc = "connect_to_wifi"
    /\ HasWifiCredentials(config)
    /\ station' = ConnectStation
    /\ connectRaised' = TRUE
    /\ config' = ClearCredentials(config)
    /\ config_json' = save_config(ClearCredentials(config))
    /\ calls' = [calls EXCEPT !.save_config = @ + 1]
    /\ start' = now
    /\ pc' = "poll"
    /\ UNCHANGED <<config_html, apAtBoot, history, boots, bootCause, now, wifiResult,
                   ap, associated, listener, connOpen, request, crash>>

\* The same, with the power lost during the save_config of the except branch.
ConnectRaisesPowerLoss ==
    /\ pc = "connect_to_wifi"
    /\ HasWifiCredentials(config)
    /\ \E f \in TornFiles(config_json, save_config(ClearCredentials(config))) :
           Restart("power", f)
    /\ interrupted' = Interrupt(config_json, save_config(ClearCredentials(config)))
    /\ UNCHANGED <<httpRequest, handled, response, submitted, entry, connClosed>>

\* time.ticks_ms() - start > 10000
TimedOut(t, s) == t - s > ConnectTimeoutMs

\* Mutant: boot_test.py calls host_config_server after a successful connection too.
PollConnected_then_server ==
    /\ pc = "poll"
    /\ station' = [station EXCEPT !.polled = TRUE]
    /\ wifiResult' = "true"
    /\ pc' = "host_config_server"
    /\ UNCHANGED <<persistent, history, boots, bootCause, config, now, start,
                   connectRaised, calls, ap, associated, listener, connOpen, request,
                   crash>>

\* station.isconnected() is True: the while loop's else branch, return True;
\* boot_test.py ends and the LED loop (firmware/main.py) takes over.
PollConnected ==
    /\ pc = "poll"
    /\ station' = [station EXCEPT !.polled = TRUE]
    /\ wifiResult' = "true"
    /\ pc' = "normal"
    /\ UNCHANGED <<persistent, history, boots, bootCause, config, now, start,
                   connectRaised, calls, ap, associated, listener, connOpen, request, crash>>

\* station.isconnected() is False and the time is not up: poll again later.
PollWaiting ==
    /\ pc = "poll"
    /\ ~TimedOut(now, start)
    /\ station' = [station EXCEPT !.polled = TRUE]
    /\ now' = now + PollIntervalMs
    /\ UNCHANGED <<persistent, history, boots, bootCause, pc, config, start,
                   connectRaised, wifiResult, calls, ap, associated, listener, connOpen,
                   request, crash>>

\* Mutant: the credentials are erased and saved on a timeout as well.
PollTimeout_erases ==
    /\ pc = "poll"
    /\ now - start > ConnectTimeoutMs
    /\ station' = [station EXCEPT !.polled = TRUE]
    /\ config' = DictSet(config, WIFI, [k \in {SSID, PASSWORD} |-> <<>>])
    /\ config_json' = save_config(DictSet(config, WIFI, [k \in {SSID, PASSWORD} |-> <<>>]))
    /\ calls' = [calls EXCEPT !.save_config = @ + 1]
    /\ wifiResult' = "false"
    /\ pc' = "host_config_server"
    /\ UNCHANGED <<config_html, apAtBoot, history, boots, bootCause, now, start,
                   connectRaised, ap, associated, listener, connOpen, request, crash>>

\* Mutant: the time being up does not end the wait.
PollTimeout_keeps_waiting ==
    /\ pc = "poll"
    /\ TimedOut(now, start)
    /\ station' = [station EXCEPT !.polled = TRUE]
    /\ UNCHANGED <<persistent, history, boots, bootCause, pc, config, now, start,
                   connectRaised, wifiResult, calls, ap, associated, listener, connOpen,
                   request, crash>>

\* station.isconnected() is False and the time is up: break, return False.
PollTimeout ==
    /\ pc = "poll"
    /\ TimedOut(now, start)
    /\ station' = [station EXCEPT !.polled = TRUE]
    /\ wifiResult' = "false"
    /\ pc' = "host_config_server"
    /\ UNCHANGED <<persistent, history, boots, bootCause, config, now, start,
                   connectRaised, calls, ap, associated, listener, connOpen, request, crash>>

(***************************************************************************)
(* host_config_server                                                      *)
(***************************************************************************)

\* check_access_point() is True: "Access Point already active".
AccessPointAlreadyActive ==
    /\ pc = "host_config_server"
    /\ ap.active
    /\ calls' = [calls EXCEPT !.host_config_server = @ + 1]
    /\ pc' = "wait_for_connection"
    /\ UNCHANGED <<persistent, history, boots, bootCause, config, now, start, station,
                   connectRaised, wifiResult, ap, associated, listener, connOpen,
                   request, crash>>

\* config["hotspot"]["ssid"] and config["hotspot"]["password"] can be read.
HasHotspot(c) ==
    /\ HasKey(c, HOTSPOT)
    /\ HasKey(c[HOTSPOT], SSID)
    /\ HasKey(c[HOTSPOT], PASSWORD)

\* create_access_point(config): the interface is activated and given the
\* hotspot identity.
CreateAccessPoint ==
    /\ pc = "host_config_server"
    /\ ~ap.active
    /\ HasHotspot(config)
    /\ calls' = [calls EXCEPT !.host_config_server = @ + 1]
    /\ ap' = [active |-> TRUE, created |-> TRUE,
              essid |-> config[HOTSPOT][SSID], password |-> config[HOTSPOT][PASSWORD]]
    /\ pc' = "wait_for_connection"
    /\ UNCHANGED <<persistent, history, boots, bootCause, config, now, start, station,
                   connectRaised, wifiResult, associated, listener, connOpen, request, crash>>

\* create_access_point(config) with no hotspot identity in the record: the
\* interface is activated, then the subscript raises KeyError.
CreateAccessPointKeyError ==
    /\ pc = "host_config_server"
    /\ ~ap.active
    /\ ~HasHotspot(config)
    /\ calls' = [calls EXCEPT !.host_config_server = @ + 1]
    /\ ap' = [ap EXCEPT !.active = TRUE, !.created = TRUE]
    /\ Crash("KeyError")
    /\ UNCHANGED <<persistent, history, boots, bootCause, config, now, start, station,
                   connectRaised, wifiResult, associated, listener, connOpen, request>>

\* wait_for_connection(): a client associates with the access point.
ClientAssociates ==
    /\ pc = "wait_for_connection"
    /\ associated' = TRUE
    /\ pc' = "bind"
    /\ UNCHANGED <<persistent, history, boots, bootCause, config, now, start, station,
                   connectRaised, wifiResult, calls, ap, listener, connOpen, request, crash>>

\* server.bind(("", 80)); server.listen(5)
BindListener ==
    /\ pc = "bind"
    /\ listener' = "bound"
    /\ pc' = "accept"
    /\ UNCHANGED <<persistent, history, boots, bootCause, config, now, start, station,
                   connectRaised, wifiResult, calls, ap, associated, connOpen, request, crash>>

\* Mutant: the failed bind is printed and the serve loop entered all the same.
BindFails_carries_on ==
    /\ pc = "bind"
    /\ pc' = "accept"
    /\ UNCHANGED <<persistent, history, boots, bootCause, config, now, start, station,
                   connectRaised, wifiResult, calls, ap, associated, listener, connOpen,
                   request, crash>>

\* bind raises OSError: "Port already in use", machine.reset().
BindFails ==
    /\ pc = "bind"
    /\ Restart("bind", config_json)
    /\ UNCHANGED history

\* conn, addr = server.accept()
Accept ==
    /\ pc = "accept"
    /\ connOpen' = TRUE
    /\ connClosed' = FALSE
    /\ httpRequest' = NoRequest
    /\ handled' = FALSE
    /\ response' = NoResponse
    /\ request' = <<>>
    /\ entry' = Snapshot(config_json, config)
    /\ pc' = "recv"
    /\ UNCHANGED <<persistent, boots, bootCause, config, now, start, station,
                   connectRaised, wifiResult, calls, ap, associated, listener,
                   submitted, interrupted, crash>>

\* request = str(conn.recv(1024)) for the request r the client sends.
Receive(r) ==
    /\ pc = "recv"
    /\ httpRequest' = r
    /\ request' = Str(Recv(RequestBytes(r)))
    /\ pc' = "handle"
    /\ UNCHANGED <<persistent, boots, bootCause, config, now, start, station,
                   connectRaised, wifiResult, calls, ap, associated, listener, connOpen,
                   handled, response, entry, submitted, connClosed,
                   interrupted, crash>>

\* accept or recv raises: the except branch prints and re-raises.
SocketError ==
    /\ pc \in {"accept", "recv"}
    /\ Crash("OSError")
    /\ UNCHANGED <<persistent, history, boots, bootCause, config, now, start, station,
                   connectRaised, wifiResult, calls, ap, associated, listener, connOpen,
                   request>>

\* Mutant: the raw field values are stored, not decoded.
WithSubmitted_raw(c, req) ==
    DictSet(c, WIFI, DictSet(DictSet(c[WIFI], SSID, ExtractSsid(req)),
                             PASSWORD, ExtractPassword(req)))

\* The record after lines 106-107: both credentials set from the request.
WithSubmitted(c, req) ==
    SetWifi(SetWifi(c, SSID, unquote_plus(ExtractSsid(req))),
            PASSWORD, unquote_plus(ExtractPassword(req)))

\* Mutant: machine.reset() is called before save_config(config).
Submit_resets_first ==
    /\ pc = "handle"
    /\ IsConfigRequest(request)
    /\ HasCredentialFields(request)
    /\ HasKey(config, WIFI)
    /\ Restart("submit", config_json)
    /\ submitted' = [valid |-> TRUE,
                     ssid |-> unquote_plus(ExtractSsid(request)),
                     password |-> unquote_plus(ExtractPassword(request))]
    /\ handled' = TRUE
    /\ UNCHANGED <<httpRequest, response, entry, connClosed, interrupted>>

\* A configuration request with both words in it and a wifi section in the
\* record: the credentials are set, saved, and the device restarts.
Submit ==
    /\ pc = "handle"
    /\ IsConfigRequest(request)
    /\ HasCredentialFields(request)
    /\ HasKey(config, WIFI)
    /\ Restart("submit", save_config(WithSubmitted(config, request)))
    /\ submitted' = [valid |-> TRUE,
                     ssid |-> unquote_plus(ExtractSsid(request)),
                     password |-> unquote_plus(ExtractPassword(request))]
    /\ handled' = TRUE
    /\ UNCHANGED <<httpRequest, response, entry, connClosed, interrupted>>

\* The same, with the power lost during save_config(config).
SubmitPowerLoss ==
    /\ pc = "handle"
    /\ IsConfigRequest(request)
    /\ HasCredentialFields(request)
    /\ HasKey(config, WIFI)
    /\ \E f \in TornFiles(config_json, save_config(WithSubmitted(config, request))) :
           Restart("power", f)
    /\ interrupted' = Interrupt(config_json, save_config(WithSubmitted(config, request)))
    /\ UNCHANGED <<httpRequest, handled, response, submitted, entry, connClosed>>

\* The same with no wifi section in the record: config["wifi"] raises
\* KeyError, which the except branch prints and re-raises.
SubmitKeyError ==
    /\ pc = "handle"
    /\ IsConfigRequest(request)
    /\ HasCredentialFields(request)
    /\ ~HasKey(config, WIFI)
    /\ handled' = TRUE
    /\ Crash("KeyError")
    /\ UNCHANGED <<persistent, boots, bootCause, config, now, start, station,
                   connectRaised, wifiResult, calls, ap, associated, listener, connOpen,
                   request, httpRequest, response, entry, submitted,
                   connClosed, interrupted>>

\* A configuration request without both words: config.html is sent and the
\* connection closed.
ServeForm ==
    /\ pc = "handle"
    /\ IsConfigRequest(request)
    /\ ~HasCredentialFields(request)
    /\ config_html
    /\ response' = Sent(FormPage)
    /\ handled' = TRUE
    /\ connOpen' = FALSE
    /\ connClosed' = TRUE
    /\ pc' = "accept"
    /\ UNCHANGED <<persistent, boots, bootCause, config, now, start, station,
                   connectRaised, wifiResult, calls, ap, associated, listener, request,
                   httpRequest, entry, submitted, interrupted,
                   crash>>

\* Mutant: the redirect path also resets config.json to the empty record.
Redirect_resets ==
    /\ pc = "handle"
    /\ ~IsConfigRequest(request)
    /\ response' = Sent(InvalidRequestMessage)
    /\ handled' = TRUE
    /\ connOpen' = FALSE
    /\ connClosed' = TRUE
    /\ pc' = "accept"
    /\ config_json' = save_config(EmptyDict)
    /\ UNCHANGED <<config_html, apAtBoot, boots, bootCause, config, now, start, station,
                   connectRaised, wifiResult, calls, ap, associated, listener, request,
                   httpRequest, entry, submitted, interrupted, crash>>

\* Any other request: the fixed message is sent and the connection closed.
Redirect ==
    /\ pc = "handle"
    /\ ~IsConfigRequest(request)
    /\ response' = Sent(InvalidRequestMessage)
    /\ handled' = TRUE
    /\ connOpen' = FALSE
    /\ connClosed' = TRUE
    /\ pc' = "accept"
    /\ UNCHANGED <<persistent, boots, bootCause, config, now, start, station,
                   connectRaised, wifiResult, calls, ap, associated, listener, request,
                   httpRequest, entry, submitted, interrupted,
                   crash>>

\* open("config.html") or conn.send raises OSError: printed and re-raised.
RespondError ==
    /\ pc = "handle"
    /\ ~(IsConfigRequest(request) /\ HasCredentialFields(request))
    /\ handled' = TRUE
    /\ Crash("OSError")
    /\ UNCHANGED <<persistent, boots, bootCause, config, now, start, station,
                   connectRaised, wifiResult, calls, ap, associated, listener, connOpen,
                   request, httpRequest, response, entry, submitted,
                   connClosed, interrupted>>

\* Power is lost and restored.
PowerCycle ==
    /\ Restart("power", config_json)
    /\ UNCHANGED history

Next ==
    \/ LoadConfig
    \/ NoCredentials
    \/ ConnectReturns
    \/ ConnectRaises
    \/ ConnectRaisesPowerLoss
    \/ PollConnected
    \/ PollWaiting
    \/ PollTimeout
    \/ AccessPointAlreadyActive
    \/ CreateAccessPoint
    \/ CreateAccessPointKeyError
    \/ ClientAssociates
    \/ BindListener
    \/ BindFails
    \/ Accept
    \/ \E r \in Requests : Receive(r)
    \/ SocketError
    \/ Submit
    \/ SubmitPowerLoss
    \/ SubmitKeyError
    \/ ServeForm
    \/ Redirect
    \/ RespondError
    \/ PowerCycle

Spec == Init /\ [][Next]_vars

(***************************************************************************)
(* Config persistence on its own: load_config and save_config applied to   *)
(* stored files and to records                                             *)
(***************************************************************************)

\* The longest wifi.ssid of the records below.
MaxFieldLen == 2

\* Characters of the credentials: plain ones and the ones ujson escapes.
FieldChars == {"a", " ", "\"", "\\", "\n"}

FieldStrings == UNION {[1..n -> FieldChars] : n \in 0..MaxFieldLen}

\* Well-formed records: none, one or both of the sections.
WellFormedRecords ==
    {EmptyDict}
      \cup {[k \in {WIFI} |-> Section(s, p)] :
               s \in FieldStrings, p \in {<<>>, <<"\\", "\"">>}}
      \cup {Record(Section(s, p)) : s \in FieldStrings, p \in {<<>>, <<"k", "e", "y">>}}

\* A well-formed record as stored: as ujson.dump writes it, or written by
\* hand with white space around it.
StoredFiles ==
    {FileOf(Dump(r)) : r \in WellFormedRecords}
      \cup {FileOf(<<" ">> \o Dump(r) \o <<"\n">>) : r \in WellFormedRecords}

\* What the two functions do not touch.
persistenceFrame ==
    <<config_html, apAtBoot, boots, bootCause, now, start, station, connectRaised,
      wifiResult, calls, ap, associated, listener, connOpen, request, httpRequest,
      handled, response, entry, submitted, connClosed,
      interrupted, crash>>

InitPersistence ==
    /\ \/ /\ pc = "stored"
          /\ config_json \in StoredFiles
          /\ config = EmptyDict
       \/ /\ pc = "record"
          /\ config_json = NoFile
          /\ config \in WellFormedRecords
    /\ entry = Snapshot(config_json, config)
    /\ config_html = TRUE
    /\ apAtBoot = FALSE
    /\ boots = 1
    /\ bootCause = "power"
    /\ now = 0
    /\ start = 0
    /\ station = StationOff
    /\ connectRaised = FALSE
    /\ wifiResult = "pending"
    /\ calls = NoCalls
    /\ ap = ApAtPowerOn(FALSE)
    /\ associated = FALSE
    /\ listener = "none"
    /\ connOpen = FALSE
    /\ request = <<>>
    /\ crash = "none"
    /\ httpRequest = NoRequest
    /\ handled = FALSE
    /\ response = NoResponse
    /\ submitted = [valid |-> FALSE, ssid |-> <<>>, password |-> <<>>]
    /\ connClosed = FALSE
    /\ interrupted = NoInterrupt

\* config = load_config() on a stored file.
LoadStored ==
    /\ pc = "stored"
    /\ load_config(config_json).ok
    /\ config' = load_config(config_json).val
    /\ pc' = "loaded"
    /\ UNCHANGED <<config_json, persistenceFrame>>

\* save_config(config) of the record just loaded.
SaveLoaded ==
    /\ pc = "loaded"
    /\ config_json' = save_config(config)
    /\ pc' = "resaved"
    /\ UNCHANGED <<config, persistenceFrame>>

\* save_config(r) of a record r.
SaveRecord ==
    /\ pc = "record"
    /\ config_json' = save_config(config)
    /\ pc' = "written"
    /\ UNCHANGED <<config, persistenceFrame>>

\* load_config() after it: the record read replaces the one in memory.
LoadWritten ==
    /\ pc = "written"
    /\ config' = (IF load_config(config_json).ok THEN load_config(config_json).val
                  ELSE EmptyDict)
    /\ crash' = (IF load_config(config_json).ok THEN "none" ELSE "ValueError")
    /\ pc' = "read"
    /\ UNCHANGED <<config_json, config_html, apAtBoot, boots, bootCause, now, start,
                   station, connectRaised, wifiResult, calls, ap, associated, listener,
                   connOpen, request, httpRequest, handled, response, entry, submitted,
                   connClosed, interrupted>>

NextPersistence ==
    \/ LoadStored
    \/ SaveLoaded
    \/ SaveRecord
    \/ LoadWritten

SpecPersistence == InitPersistence /\ [][NextPersistence]_vars

(***************************************************************************)
(* One boot cycle up to the return of connect_to_wifi.  Once the function *)
(* is entered its single thread of control always takes its next step and *)
(* the millisecond clock advances between polls.  Whether                  *)
(* station.isconnected() ever reports True is up to the network:          *)
(* PollConnected has no fairness.                                          *)
(***************************************************************************)

NextConnect ==
    \/ LoadConfig
    \/ NoCredentials
    \/ ConnectReturns
    \/ ConnectRaises
    \/ PollConnected
    \/ PollWaiting
    \/ PollTimeout

SpecConnect ==
    /\ Init
    /\ [][NextConnect]_vars
    /\ WF_vars(NoCredentials)
    /\ WF_vars(ConnectReturns \/ ConnectRaises)
    /\ WF_vars(PollWaiting)
    /\ WF_vars(PollTimeout)

(***************************************************************************)
(* What the claims speak of                                                *)
(***************************************************************************)

\* The raw values of the query fields of request r named name.
QueryFields(r, name) ==
    {r.query[i][2] : i \in {j \in 1..Len(r.query) : r.query[j][1] = name}}

HasQueryField(r, name) == QueryFields(r, name) /= {}
FieldValue(r, name) == CHOOSE v \in QueryFields(r, name) : TRUE

\* The request is a GET of exactly /config.
TargetsConfig(r) == r.method = GET /\ r.path = ConfigPath

\* config.json holds a record whose wifi section has these credentials.
FileHasWifi(f, ssid, password) ==
    /\ f.present
    /\ LET r == Load(f.text)
       IN  /\ r.ok
           /\ WIFI \in DOMAIN r.val
           /\ {SSID, PASSWORD} \subseteq DOMAIN r.val[WIFI]
           /\ r.val[WIFI][SSID] = ssid
           /\ r.val[WIFI][PASSWORD] = password

\* The record c has no wifi.ssid to connect with: a key is absent or the
\* ssid is "".
NoSsid(c) ==
    \/ WIFI \notin DOMAIN c
    \/ SSID \notin DOMAIN c[WIFI]
    \/ PASSWORD \notin DOMAIN c[WIFI]
    \/ c[WIFI][SSID] = <<>>

\* The record c has a wifi.password and it is "".
EmptyPassword(c) ==
    /\ WIFI \in DOMAIN c
    /\ PASSWORD \in DOMAIN c[WIFI]
    /\ c[WIFI][PASSWORD] = <<>>

\* connect_to_wifi has been entered and entry still holds the record and the
\* file it was entered with (no connection has been accepted since).
InOrAfterConnect == pc \in {"poll", "host_config_server", "normal"}

(***************************************************************************)
(* C1                                                                      *)
(***************************************************************************)

\* C1: once a GET of /config whose query carries an ssid and a password
\* field has been handled, the record having a wifi section, config.json
\* holds as wifi.ssid and wifi.password the percent/plus-decoded raw values
\* of those two fields.
C1_SubmissionPersistsDecodedFields ==
    (/\ handled
     /\ WIFI \in DOMAIN entry.config
     /\ TargetsConfig(httpRequest)
     /\ HasQueryField(httpRequest, SSID)
     /\ HasQueryField(httpRequest, PASSWORD))
    => FileHasWifi(config_json,
                   unquote_plus(FieldValue(httpRequest, SSID)),
                   unquote_plus(FieldValue(httpRequest, PASSWORD)))

(***************************************************************************)
(* C2                                                                      *)
(***************************************************************************)

\* C2: in the boot cycle a credential submission's restart begins, the record
\* loaded holds exactly the credentials the submission wrote, every
\* station.connect is given exactly that pair, and when the ssid is not ""
\* the boot cycle does not get past connect_to_wifi without one such call.
C2_NextBootLoadsSubmitted ==
    bootCause = "submit" =>
        /\ submitted.valid
        /\ pc = "connect_to_wifi" =>
               /\ WIFI \in DOMAIN config
               /\ {SSID, PASSWORD} \subseteq DOMAIN config[WIFI]
               /\ config[WIFI][SSID] = submitted.ssid
               /\ config[WIFI][PASSWORD] = submitted.password
        /\ \A i \in 1..Len(station.connects) :
               station.connects[i] = <<submitted.ssid, submitted.password>>
        /\ (pc \notin {"boot", "connect_to_wifi"} /\ submitted.ssid /= <<>>) =>
               Len(station.connects) = 1

\* The example submission was written, the device restarted, and the join is
\* under way with the decoded pair.
C2_Witness ==
    /\ bootCause = "submit"
    /\ pc = "poll"
    /\ submitted.ssid = <<"f", "o", "o", " ", "b", "a", "r">>
    /\ station.connects =
           << << <<"f", "o", "o", " ", "b", "a", "r">>,
                 <<"b", "a", "z", "+", "q", "u", "x">> >> >>

(***************************************************************************)
(* C3                                                                      *)
(***************************************************************************)

\* C3: in a call of connect_to_wifi where station.connect raised nothing,
\* the record and config.json stay as they were at entry and save_config is
\* not called while the connection is awaited; and when the call has given
\* up, more than 10 seconds after the wait began, it has returned False with
\* both still unchanged.
C3_TimeoutLeavesCredentials ==
    (InOrAfterConnect /\ station.connects /= <<>> /\ ~connectRaised) =>
        /\ calls.save_config = 0
        /\ config = entry.config
        /\ config_json = entry.file
        /\ pc = "host_config_server" =>
               /\ now - start > 10000
               /\ wifiResult = "false"

\* A call with credentials has timed out.
C3_Witness ==
    /\ pc = "host_config_server"
    /\ station.polled
    /\ ~connectRaised
    /\ now - start > 10000
    /\ config[WIFI][SSID] = <<"h", "o", "m", "e">>
    /\ FileHasWifi(config_json, <<"h", "o", "m", "e">>, <<"k", "e", "y">>)

(***************************************************************************)
(* C4                                                                      *)
(***************************************************************************)

\* C4: when a call of connect_to_wifi in which station.connect raised has
\* finished, wifi.ssid and wifi.password are "" in the record in memory and
\* in config.json.
C4_RaiseClearsCredentials ==
    (connectRaised /\ wifiResult /= "pending") =>
        /\ config[WIFI][SSID] = <<>>
        /\ config[WIFI][PASSWORD] = <<>>
        /\ FileHasWifi(config_json, <<>>, <<>>)

\* station.connect raised on stored credentials and the call has returned.
C4_Witness ==
    /\ connectRaised
    /\ wifiResult = "false"
    /\ entry.config[WIFI][SSID] = <<"h", "o", "m", "e">>
    /\ entry.config[WIFI][PASSWORD] = <<"k", "e", "y">>

(***************************************************************************)
(* C5                                                                      *)
(***************************************************************************)

\* C5: a call of connect_to_wifi entered with a record that has no wifi.ssid
\* (the ssid is "", or the wifi section or one of its two keys is absent)
\* returns False with the station interface never activated, station.connect
\* never called and the connection status never polled.
C5_NoSsidNoNetworkOperation ==
    (InOrAfterConnect /\ NoSsid(entry.config)) =>
        /\ wifiResult = "false"
        /\ ~station.active
        /\ station.connects = <<>>
        /\ ~station.polled

\* The call has returned on a record whose wifi.ssid is "".
C5_Witness ==
    /\ pc = "host_config_server"
    /\ WIFI \in DOMAIN entry.config
    /\ SSID \in DOMAIN entry.config[WIFI]
    /\ entry.config[WIFI][SSID] = <<>>
    /\ wifiResult = "false"

(***************************************************************************)
(* C6                                                                      *)
(***************************************************************************)

\* C6: a call of connect_to_wifi entered with a record whose wifi.password
\* is "" never calls station.connect, whatever the ssid.
C6_EmptyPasswordNeverConnects ==
    (InOrAfterConnect /\ EmptyPassword(entry.config)) => station.connects = <<>>

\* C6 as amended: a call of connect_to_wifi entered with a record whose
\* wifi.password is "" returns False without any network operation when the
\* ssid is "" or absent too; when the ssid is not "", station.connect is
\* called once, with that ssid and the password "".
C6_EmptyPasswordConnectsIffSsid ==
    (InOrAfterConnect /\ EmptyPassword(entry.config)) =>
        IF NoSsid(entry.config)
        THEN /\ wifiResult = "false"
             /\ station = StationOff
        ELSE station.connects = << <<entry.config[WIFI][SSID], <<>> >> >>

\* A join is under way with an ssid and the password "".
C6_Witness ==
    /\ pc = "poll"
    /\ EmptyPassword(entry.config)
    /\ station.connects = << << <<"o", "p", "e", "n">>, <<>> >> >>

(***************************************************************************)
(* C7                                                                      *)
(***************************************************************************)

\* C7: in a boot cycle connect_to_wifi is called once, as soon as the record
\* is loaded, and never again; host_config_server is called at most once and
\* only after connect_to_wifi returned False, and after False nothing else
\* follows; after True there is no call of host_config_server, no access
\* point brought up, no client awaited and no listener bound.
C7_OneConnectThenServerIffFailed ==
    /\ calls.connect_to_wifi <= 1
    /\ (pc \notin {"boot", "crashed"} \/ wifiResult /= "pending") => calls.connect_to_wifi = 1
    /\ calls.host_config_server <= 1
    /\ calls.host_config_server = 1 => wifiResult = "false"
    /\ wifiResult = "false" => (pc = "host_config_server" \/ calls.host_config_server = 1)
    /\ wifiResult = "true" =>
           /\ pc = "normal"
           /\ calls.host_config_server = 0
           /\ ~ap.created
           /\ ~associated
           /\ listener = "none"
           /\ ~connOpen

\* connect_to_wifi reported success and the LED loop runs.
C7_Witness ==
    /\ wifiResult = "true"
    /\ pc = "normal"
    /\ calls.connect_to_wifi = 1
    /\ ~ap.active

(***************************************************************************)
(* C8                                                                      *)
(***************************************************************************)

\* C8: once a GET of /config with no query has been handled, no exception
\* having been raised, the form page has been sent, config.json is as
\* it was when the connection was accepted, and the device has not
\* restarted: the serve loop is back at accept.
C8_PlainConfigGetServesForm ==
    (/\ handled
     /\ crash = "none"
     /\ TargetsConfig(httpRequest)
     /\ httpRequest.query = <<>>)
    => /\ response = Sent(FormPage)
       /\ pc = "accept"
       /\ config_json = entry.file

(***************************************************************************)
(* C9                                                                      *)
(***************************************************************************)

\* C9: once a request that is not a GET of exactly /config has been handled,
\* no exception having been raised, the fixed message has been sent, the
\* record and config.json are as they were when the connection was accepted,
\* and the device has not restarted: the serve loop is back at accept.
C9_OtherRequestsGetFixedMessage ==
    (/\ handled
     /\ crash = "none"
     /\ ~TargetsConfig(httpRequest))
    => /\ response = Sent(InvalidRequestMessage)
       /\ pc = "accept"
       /\ config = entry.config
       /\ config_json = entry.file

(***************************************************************************)
(* C10                                                                     *)
(***************************************************************************)

\* C10: a boot cycle that loaded the empty record goes from connect_to_wifi,
\* which returns False without touching the station, on to the bound
\* listener with no exception raised on the way.
C10_EmptyRecordReachesListening ==
    (calls.connect_to_wifi = 1 /\ config = EmptyDict /\ listener = "none") =>
        /\ crash = "none"
        /\ wifiResult \in {"pending", "false"}
        /\ station = StationOff

(***************************************************************************)
(* C11                                                                     *)
(***************************************************************************)

\* C11: a step that leaves the bind without a bound listener is a restart:
\* the next state is the start of a new boot cycle with no listener and no
\* connection, config.json is what it was, and in the boot cycle that ends
\* no connection was accepted, no request read, and host_config_server wrote
\* nothing (the only save, if any, is connect_to_wifi's after a raise).
C11_BindFailureRestarts ==
    [][(pc = "bind" /\ listener' /= "bound") =>
           /\ boots' = boots + 1
           /\ pc' = "boot"
           /\ listener' = "none"
           /\ ~connOpen'
           /\ config_json' = config_json
           /\ ~connOpen
           /\ request = <<>>
           /\ calls.host_config_server = 1
           /\ calls.save_config = IF connectRaised THEN 1 ELSE 0]_vars

\* The bind failed on a device holding credentials and the device restarted.
C11_Witness ==
    /\ bootCause = "bind"
    /\ pc = "boot"
    /\ boots = 2
    /\ FileHasWifi(config_json, <<"h", "o", "m", "e">>, <<"k", "e", "y">>)

(***************************************************************************)
(* C12                                                                     *)
(***************************************************************************)

\* C12: a boot cycle in which host_config_server has bound its listener is
\* either still in the serve loop or has ended in a restart (which begins a
\* new boot cycle with no listener): the boot script is never ended by an
\* exception that host_config_server let out.
C12_ServerLeavesOnlyByRestart ==
    (calls.host_config_server = 1 /\ listener = "bound") =>
        /\ pc \in {"accept", "recv", "handle"}
        /\ crash = "none"

(***************************************************************************)
(* C13                                                                     *)
(***************************************************************************)

\* C13: while an accepted connection is open, whatever fails on it, the
\* server is still running: it is reading or handling the request, and does
\* not terminate with the connection's exception.
C13_ConnectionFailureKeepsServing ==
    connOpen => pc \in {"recv", "handle"}

(***************************************************************************)
(* C14                                                                     *)
(***************************************************************************)

\* C14: at the start of a boot cycle that a power loss during save_config
\* began, config.json is the complete file from before the save or the
\* complete file the save was writing, and load_config parses it.
C14_PowerLossLeavesParsableFile ==
    (interrupted.cut /\ pc = "boot") =>
        /\ config_json \in {interrupted.old, interrupted.new}
        /\ load_config(config_json).ok

(***************************************************************************)
(* C15                                                                     *)
(***************************************************************************)

\* C15: the step that loads the configuration leaves config.json as it is
\* (an absent file stays absent); with no file the record is the empty one
\* and no exception is raised; with a file that parses the record is the
\* one parsed from it; with a file that does not parse the boot script ends
\* with ValueError before connect_to_wifi is called.
C15_LoadNeverDefaults ==
    [][(pc = "boot" /\ pc' /= "boot") =>
           /\ config_json' = config_json
           /\ ~config_json.present =>
                  /\ pc' = "connect_to_wifi"
                  /\ config' = EmptyDict
                  /\ crash' = "none"
           /\ (config_json.present /\ Load(config_json.text).ok) =>
                  /\ pc' = "connect_to_wifi"
                  /\ config' = Load(config_json.text).val
                  /\ crash' = "none"
           /\ (config_json.present /\ ~Load(config_json.text).ok) =>
                  /\ pc' = "crashed"
                  /\ crash' = "ValueError"
                  /\ calls' = calls
                  /\ config' = config]_vars

\* The file cut short at power-on was loaded and the failure surfaced.
C15_Witness ==
    /\ boots = 1
    /\ pc = "crashed"
    /\ crash = "ValueError"
    /\ config_json.present
    /\ Len(config_json.text) = 20
    /\ calls.connect_to_wifi = 0

(***************************************************************************)
(* C16                                                                     *)
(***************************************************************************)

\* C16: once a stored well-formed record has been loaded and saved back,
\* config.json parses to the record it parsed to before; and once a record
\* has been saved and loaded, no exception was raised and the record read is
\* the record saved.
C16_PersistenceRoundTrip ==
    /\ pc \in {"loaded", "resaved"} =>
           /\ Load(entry.file.text).ok
           /\ config = Load(entry.file.text).val
    /\ pc = "resaved" =>
           /\ config_json.present
           /\ Load(config_json.text).ok
           /\ Load(config_json.text).val = Load(entry.file.text).val
    /\ pc = "read" =>
           /\ crash = "none"
           /\ config = entry.config

\* A record whose ssid needs escaping, stored with white space around it,
\* was loaded and saved back.
C16_Witness ==
    /\ pc = "resaved"
    /\ config_json /= entry.file
    /\ WIFI \in DOMAIN config
    /\ config[WIFI][SSID] = <<"\"", "\\">>
    /\ HOTSPOT \in DOMAIN config

(***************************************************************************)
(* C17                                                                     *)
(***************************************************************************)

\* config.json holds a record with both wifi credentials.
HoldsWifi(f) ==
    LET r == load_config(f)
    IN  /\ r.ok
        /\ WIFI \in DOMAIN r.val
        /\ {SSID, PASSWORD} \subseteq DOMAIN r.val[WIFI]

\* wifi.ssid is "" exactly when wifi.password is "".
WifiPaired(f) ==
    load_config(f).val[WIFI][SSID] = <<>> <=> load_config(f).val[WIFI][PASSWORD] = <<>>

\* C17: no step (of a boot, a connect attempt, a form submission) takes
\* config.json from a record whose wifi.ssid and wifi.password are both ""
\* or both not "" to a record where exactly one of them is "".
C17_CredentialsStayPaired ==
    [][(HoldsWifi(config_json) /\ WifiPaired(config_json) /\ HoldsWifi(config_json'))
           => WifiPaired(config_json')]_vars

(***************************************************************************)
(* C18                                                                     *)
(***************************************************************************)

\* The hotspot section of the record config.json holds, if it holds one.
HotspotOf(f) ==
    LET r == load_config(f)
    IN  IF r.ok /\ HOTSPOT \in DOMAIN r.val THEN <<r.val[HOTSPOT]>> ELSE <<>>

\* C18: a step that changes config.json is host_config_server handling a
\* request on its submission path, or connect_to_wifi with credentials whose
\* station.connect raised (power lost during the save included); every
\* other step leaves the file as it is.  No step removes the file, and a
\* step from a parsable file to a parsable file keeps the hotspot section.
C18_OnlyTwoWriters ==
    [][/\ config_json' /= config_json =>
              \/ /\ pc = "handle"
                 /\ IsConfigRequest(request)
                 /\ HasCredentialFields(request)
                 /\ handled' \/ interrupted'.cut
              \/ /\ pc = "connect_to_wifi"
                 /\ HasWifiCredentials(config)
                 /\ connectRaised' \/ interrupted'.cut
       /\ config_json.present => config_json'.present
       /\ (load_config(config_json).ok /\ load_config(config_json').ok) =>
              HotspotOf(config_json') = HotspotOf(config_json)]_vars

\* A submission has stored new credentials over a record with cleared ones
\* and the device restarted; the hotspot section is still there.
C18_Witness ==
    /\ bootCause = "submit"
    /\ pc = "boot"
    /\ submitted.valid
    /\ WIFI \in DOMAIN entry.config
    /\ entry.config[WIFI] = Section(<<>>, <<>>)
    /\ entry.file /= config_json
    /\ HotspotOf(config_json) = <<HotspotSection>>

(***************************************************************************)
(* C19                                                                     *)
(***************************************************************************)

\* The request string host_config_server made of what the client sent.
RequestOf(r) == Str(Recv(RequestBytes(r)))

\* C19: when a boot cycle begins that a submission's machine.reset() started,
\* config.json already holds, complete, the wifi values the handler took
\* from the request, and nothing was sent on the connection the request
\* came on.
C19_SaveThenRestartNoResponse ==
    (bootCause = "submit" /\ pc = "boot") =>
        /\ handled
        /\ FileHasWifi(config_json,
                       unquote_plus(ExtractSsid(RequestOf(httpRequest))),
                       unquote_plus(ExtractPassword(RequestOf(httpRequest))))
        /\ response = NoResponse

\* The example submission restarted the device with its credentials stored.
C19_Witness ==
    /\ bootCause = "submit"
    /\ pc = "boot"
    /\ httpRequest = ExampleSubmission
    /\ response = NoResponse
    /\ config_json /= entry.file
    /\ FileHasWifi(config_json, <<"f", "o", "o", " ", "b", "a", "r">>,
                   <<"b", "a", "z", "+", "q", "u", "x">>)

(***************************************************************************)
(* C20                                                                     *)
(***************************************************************************)

\* C20: in a boot cycle in which station.connect raised (and the stored
\* credentials were erased), connect_to_wifi does not return True and the
\* boot script does not go on to normal operation.
C20_RaiseReportsFailure ==
    connectRaised => (wifiResult /= "true" /\ pc /= "normal")

(***************************************************************************)
(* C21                                                                     *)
(***************************************************************************)

\* C21: when the serve loop is back at accept after a request was handled,
\* the connection it came on has been closed and none is open; and when a
\* boot cycle begins that a submission's machine.reset() started, conn.close()
\* had been called on the connection the submission came on.
C21_ConnectionClosedBeforeNext ==
    /\ (pc = "accept" /\ handled) => (connClosed /\ ~connOpen)
    /\ (bootCause = "submit" /\ pc = "boot" /\ handled) => connClosed

(***************************************************************************)
(* C22                                                                     *)
(***************************************************************************)

\* C22: a call of connect_to_wifi that has been entered always returns; the
\* wait never lasts longer than the timeout plus one poll; and when it
\* returns False after polling, more than 10 seconds have passed since the
\* polling started.
C22_ConnectAlwaysReturns ==
    /\ (pc \in {"connect_to_wifi", "poll"}) ~> (wifiResult /= "pending")
    /\ [](pc = "poll" => now - start <= ConnectTimeoutMs + PollIntervalMs)
    /\ []((wifiResult = "false" /\ station.polled) => now - start > 10000)

\* station.connect raised, isconnected() never reported True, and the call
\* returned False after the third poll.
C22_Witness ==
    /\ wifiResult = "false"
    /\ connectRaised
    /\ station.polled
    /\ now = 3 * PollIntervalMs
    /\ pc = "host_config_server"

(***************************************************************************)
(* C23                                                                     *)
(***************************************************************************)

\* The request r with its two query fields in the other order.
FieldsSwapped(r) == [r EXCEPT !.query = <<r.query[2], r.query[1]>>]

\* C23: when a GET of /config whose query holds exactly an ssid and a
\* password field, in either order, was stored and restarted the device,
\* config.json holds the credentials the handler takes from the same request
\* with the two fields in the other order.
C23_FieldOrderIrrelevant ==
    (/\ bootCause = "submit"
     /\ pc = "boot"
     /\ handled
     /\ TargetsConfig(httpRequest)
     /\ httpRequest.version = HTTP11
     /\ Len(httpRequest.query) = 2
     /\ HasQueryField(httpRequest, SSID)
     /\ HasQueryField(httpRequest, PASSWORD))
    => FileHasWifi(config_json,
                   unquote_plus(ExtractSsid(RequestOf(FieldsSwapped(httpRequest)))),
                   unquote_plus(ExtractPassword(RequestOf(FieldsSwapped(httpRequest)))))

====
